---- MODULE Spec2Model ----
(***************************************************************************)
(* A model of src/api/index.py: the webhook gateway, the command handlers, *)
(* the store client with its retry loop, and the two remote resources (the *)
(* selection blob and the job-queue blob) the handlers read and replace.   *)
(* Every inbound call is one process; a process is suspended exactly at    *)
(* the attempts of its store requests, so calls interleave at those points.*)
(***************************************************************************)
EXTENDS Integers, Sequences, FiniteSets, TLC

\* ------------------------------------------------------------------ bounds
MaxRequests == 3        \* inbound calls in a behaviour of calls made one at a time
MaxOverlapping == 2     \* inbound calls in a behaviour of calls that may overlap
MaxAgents == 33         \* entries of the heartbeat feed in the listing runs

\* ------------------------------------------------------- program constants
retries == 3            \* make_async_request(..., retries=3, ...)
agents_per_page == 15   \* cmd_list_agents
online_window == 90     \* cmd_list_agents: seconds since the last heartbeat
current_time_unix == 1000   \* time.time() of the call that lists

\* ------------------------------------------------------------ Python values
\* Values are tagged records so that any two of them can be compared.
None == [t |-> "None"]
Str(s) == [t |-> "str", v |-> s]
List(s) == [t |-> "list", v |-> s]
Dict(d) == [t |-> "dict", v |-> d]
Num(n) == [t |-> "int", v |-> n]
EmptyDict == Dict(<<>>)

\* Python truthiness (`if data`, `if not selected_target`, `if await post_job(..)`).
Truthy(x) ==
    CASE x.t = "None" -> FALSE
      [] x.t = "str"  -> x.v # ""
      [] x.t = "list" -> x.v # <<>>
      [] x.t = "dict" -> DOMAIN x.v # {}
      [] x.t = "int"  -> x.v # 0
      [] OTHER        -> TRUE

\* --------------------------------------------------- characters and case
\* The characters of the tokens a message of the model can carry.
chars(s) ==
    CASE s = "CONFIRM"  -> <<"C","O","N","F","I","R","M">>
      [] s = "confirm"  -> <<"c","o","n","f","i","r","m">>
      [] s = "Confirm"  -> <<"C","o","n","f","i","r","m">>
      [] s = "CONFIRN"  -> <<"C","O","N","F","I","R","N">>
      [] s = "clear"    -> <<"c","l","e","a","r">>
      [] s = "Clear"    -> <<"C","l","e","a","r">>
      [] s = "CLEAR"    -> <<"C","L","E","A","R">>
      [] s = "all"      -> <<"a","l","l">>
      [] s = "a1"       -> <<"a","1">>
      [] s = "A1"       -> <<"A","1">>
      [] s = "x"        -> <<"x">>
      [] s = "2"        -> <<"2">>
      [] s = "3"        -> <<"3">>
      [] s = "0"        -> <<"0">>
      [] s = "4"        -> <<"4">>
      [] OTHER          -> <<>>

LowerCase == <<"a","c","e","f","i","l","m","n","o","r","x">>
UpperCase == <<"A","C","E","F","I","L","M","N","O","R","X">>

toupper(ch) ==
    IF \E i \in DOMAIN LowerCase : LowerCase[i] = ch
    THEN UpperCase[CHOOSE i \in DOMAIN LowerCase : LowerCase[i] = ch]
    ELSE ch

tolower(ch) ==
    IF \E i \in DOMAIN UpperCase : UpperCase[i] = ch
    THEN LowerCase[CHOOSE i \in DOMAIN UpperCase : UpperCase[i] = ch]
    ELSE ch

\* str.upper() and str.lower(), on the characters of a token.
upper(s) == [i \in DOMAIN chars(s) |-> toupper(chars(s)[i])]
lower(s) == [i \in DOMAIN chars(s) |-> tolower(chars(s)[i])]

\* int(context.args[0]): the value, or a ValueError for a token that is no number.
int(s) ==
    CASE s = "0" -> [ValueError |-> FALSE, v |-> 0]
      [] s = "2" -> [ValueError |-> FALSE, v |-> 2]
      [] s = "3" -> [ValueError |-> FALSE, v |-> 3]
      [] s = "4" -> [ValueError |-> FALSE, v |-> 4]
      [] OTHER   -> [ValueError |-> TRUE, v |-> 0]

\* " ".join(context.args)
RECURSIVE join(_)
join(args) ==
    IF args = <<>> THEN ""
    ELSE IF Len(args) = 1 THEN args[1]
    ELSE args[1] \o " " \o join(Tail(args))

\* ------------------------------------------------------------ the store
\* The text a resource holds: no text at all, text that is not JSON, or JSON.
EmptyText == [t |-> "empty"]
NotJson == [t |-> "garbage"]

\* What one attempt of a request can end in (lines 44-50): a transport error
\* (httpx.RequestError), an error status (raise_for_status), or a response.
\* A replace that ends in a transport error may or may not have reached the store.
GetResults(blob) ==
    { [kind |-> "RequestError", applied |-> FALSE, text |-> EmptyText],
      [kind |-> "HTTPStatusError", applied |-> FALSE, text |-> EmptyText],
      [kind |-> "response", applied |-> FALSE, text |-> blob] }

PostResults(data) ==
    { [kind |-> "RequestError", applied |-> FALSE, text |-> EmptyText],
      [kind |-> "RequestError", applied |-> TRUE, text |-> EmptyText],
      [kind |-> "HTTPStatusError", applied |-> FALSE, text |-> EmptyText],
      [kind |-> "response", applied |-> TRUE, text |-> data],
      [kind |-> "response", applied |-> TRUE, text |-> EmptyText] }

\* How a request that has returned ended: with the retries exhausted, on an
\* error status, on a response without text, on text that is not JSON, or
\* with the JSON value of the response.
ending(res) ==
    CASE res.kind = "RequestError" -> "exhausted"
      [] res.kind = "HTTPStatusError" -> "status"
      [] res.text.t = "empty" -> "empty"
      [] res.text.t = "garbage" -> "garbage"
      [] OTHER -> "returned"

\* make_async_request allowing one attempt more than `retries`
make_async_request_extra_attempt(attempt, res) ==
    CASE res.kind = "RequestError" ->
            [returned |-> attempt >= retries, value |-> None]
      [] res.kind = "HTTPStatusError" ->
            [returned |-> TRUE, value |-> None]
      [] res.text.t = "empty" ->
            [returned |-> TRUE, value |-> List(<<>>)]
      [] res.text.t = "garbage" ->
            [returned |-> TRUE, value |-> List(<<>>)]
      [] OTHER ->
            [returned |-> TRUE, value |-> res.text]

\* One attempt of make_async_request, the `attempt`-th (from 0), ending in `res`:
\* whether the call returns now and, if so, what.
make_async_request(attempt, res) ==
    CASE res.kind = "RequestError" ->
            [returned |-> attempt + 1 >= retries, value |-> None]
      [] res.kind = "HTTPStatusError" ->
            [returned |-> TRUE, value |-> None]
      [] res.text.t = "empty" ->
            [returned |-> TRUE, value |-> List(<<>>)]
      [] res.text.t = "garbage" ->
            [returned |-> TRUE, value |-> List(<<>>)]
      [] OTHER ->
            [returned |-> TRUE, value |-> res.text]

\* get_state without the `if data` guard
get_state_value_unguarded(data) ==
    IF data.t = "dict"
    THEN [raised |-> FALSE,
          v |-> IF "selected_target" \in DOMAIN data.v
                THEN data.v.selected_target ELSE None]
    ELSE [raised |-> TRUE, v |-> None]

\* get_state looking its value up under another key
get_state_value_wrong_key(data) ==
    IF ~Truthy(data) THEN [raised |-> FALSE, v |-> None]
    ELSE IF data.t = "dict"
         THEN [raised |-> FALSE,
               v |-> IF "target" \in DOMAIN data.v
                     THEN data.v.target ELSE None]
         ELSE [raised |-> TRUE, v |-> None]

\* get_state, after its request returned `data`: the selected target, or the
\* AttributeError of `data.get` on a truthy value that is no dict.
get_state_value(data) ==
    IF ~Truthy(data) THEN [raised |-> FALSE, v |-> None]
    ELSE IF data.t = "dict"
         THEN [raised |-> FALSE,
               v |-> IF "selected_target" \in DOMAIN data.v
                     THEN data.v.selected_target ELSE None]
         ELSE [raised |-> TRUE, v |-> None]

\* set_state's request body.
state_body(target_id) == Dict([selected_target |-> target_id])

\* post_job, lines 63-64: the list that is written back.
append_job(fetched, job) ==
    IF fetched.t # "list" THEN <<job>> ELSE Append(fetched.v, job)

\* post_job, line 61.
new_job(id, target_id, command, args) ==
    [job_id |-> id, target_id |-> target_id, command |-> command, args |-> args]

\* ------------------------------------------------------------ the listing
Min(a, b) == IF a <= b THEN a ELSE b

\* agent.get("timestamp", 0)
timestamp(agent) == IF "timestamp" \in DOMAIN agent THEN agent.timestamp ELSE 0

\* sorted(..., key=timestamp, reverse=True): stable, so an agent is placed
\* behind every agent already placed whose timestamp is not smaller.
RECURSIVE insert_desc(_, _)
insert_desc(done, a) ==
    IF done = <<>> THEN <<a>>
    ELSE IF timestamp(Head(done)) >= timestamp(a)
         THEN <<Head(done)>> \o insert_desc(Tail(done), a)
         ELSE <<a>> \o done

RECURSIVE sorted_desc(_, _)
sorted_desc(done, rest) ==
    IF rest = <<>> THEN done
    ELSE sorted_desc(insert_desc(done, Head(rest)), Tail(rest))

is_online(agent) == current_time_unix - timestamp(agent) <= online_window

\* lines 97-101
online_agents(agents) == sorted_desc(<<>>, SelectSeq(agents, is_online))

\* the page count rounded down instead of up
total_pages_floor(total_agents) == total_agents \div agents_per_page

\* line 109
total_pages(total_agents) ==
    (total_agents + agents_per_page - 1) \div agents_per_page

\* lines 115-117: a Python slice, cut at the end of the list
agents_to_display(online, page) ==
    SubSeq(online, (page - 1) * agents_per_page + 1,
           Min(Len(online), (page - 1) * agents_per_page + agents_per_page))

\* lines 70-77: the page asked for, or the reply to a token that is no number
page_argument(args) ==
    IF args = <<>> THEN [ValueError |-> FALSE, v |-> 1]
    ELSE IF int(args[1]).ValueError THEN int(args[1])
    ELSE IF int(args[1]).v < 1 THEN [ValueError |-> FALSE, v |-> 1]
    ELSE int(args[1])

\* lines 88-138: the reply to /list, from the fetched feed and selection
list_reply(agents, selected_target, page) ==
    IF agents.t = "None" THEN [kind |-> "ConnectionError"]
    ELSE IF agents.t # "list" THEN [kind |-> "DataError"]
    ELSE LET online == online_agents(agents.v)
             pages == total_pages(Len(online))
         IN  IF Len(online) = 0 THEN [kind |-> "NoAgents"]
             ELSE IF page > pages
                  THEN [kind |-> "PageOutOfRange", total_pages |-> pages]
                  ELSE [kind |-> "Page", page |-> page, total_pages |-> pages,
                        agents |-> agents_to_display(online, page),
                        selected |-> selected_target,
                        next_hint |-> page < pages]

\* ------------------------------------------------------------------ state
VARIABLES
    SECRET_TOKEN,     \* the configured secret, None when the variable is unset
    state_blob,       \* the text of the resource at STATE_URL
    jobs_blob,        \* the text of the resource at JOBS_URL
    heartbeat_blob,   \* the text of the resource at HEARTBEAT_URL
    pc,               \* per call: where its handler is suspended
    frame,            \* per call: the locals of its handler
    reply,            \* per call: what it answered
    uuid4,            \* job identifiers generated so far
    requests,         \* inbound calls received so far
    overlapped,       \* per call (history): another call was in flight during it
    workers           \* how many calls the hosting transport runs at once

vars == <<SECRET_TOKEN, state_blob, jobs_blob, heartbeat_blob, pc, frame,
          reply, uuid4, requests, overlapped, workers>>

\* the slots in which the transport runs calls
Calls == {1, 2}

\* the calls one behaviour receives
RequestBound == IF workers = 1 THEN MaxRequests ELSE MaxOverlapping

Secret == Str("s3cret")
\* the header of a call: absent, the secret, or something else
Headers == {None, Secret, Str("guess")}

agent_commands == {"info"}

Update(command, args, document) ==
    [command |-> command, args |-> args, document |-> document]

TargetUpdates ==
    { Update("target", a, "") :
        a \in {<<>>, <<"a1">>, <<"all">>, <<"clear">>, <<"Clear">>} }
DestroyUpdates ==
    { Update("destroy", a, "") :
        a \in {<<"a1">>, <<"a1", "CONFIRM">>, <<"a1", "confirm">>,
               <<"a1", "CONFIRN">>, <<"a1", "CONFIRM", "x">>} }
UploadUpdates == { Update("upload", <<>>, d) : d \in {"", "f.txt"} }
GenericUpdates ==
    { Update(cmd, a, "") : cmd \in agent_commands, a \in {<<>>, <<"x", "a1">>} }
ListUpdates ==
    { Update("list", a, "") : a \in {<<>>, <<"2">>, <<"x">>} }
HelpUpdates == { Update("help", <<>>, "") }

NoUpdate == Update("", <<>>, "")
NoJob == new_job(0, None, "", "")
NoReply == [kind |-> "none"]

\* The locals of a handler. Four fields are history only: fetched and fetch
\* (what the fetch of post_job returned and how it ended), read (how the
\* request of get_state ended) and before (what the store held when the call
\* was accepted, kept for calls made one at a time, where nothing but the
\* call itself changes the store until the call ends).
NoSnapshot == [state |-> None, jobs |-> None]
IdleFrame ==
    [header |-> None, update |-> NoUpdate, attempt |-> 0,
     selected_target |-> None, target_id |-> None, job |-> NoJob,
     current_jobs |-> <<>>, agents |-> None, page |-> 1,
     fetched |-> None, fetch |-> "none", read |-> "none",
     before |-> NoSnapshot]

InFlight(c) == pc[c] \notin {"idle", "done"}

\* two agents seen a moment ago, one silent for too long, one without a timestamp
SmallFeed ==
    List(<< [id |-> "a1", timestamp |-> current_time_unix - 10],
            [id |-> "a2", timestamp |-> current_time_unix - 5],
            [id |-> "a3", timestamp |-> current_time_unix - online_window - 1],
            [id |-> "a4"] >>)

InitWith(n, secret, state, jobs, heartbeat) ==
    /\ workers = n
    /\ SECRET_TOKEN = secret
    /\ state_blob = state
    /\ jobs_blob = jobs
    /\ heartbeat_blob = heartbeat
    /\ pc = [c \in Calls |-> "idle"]
    /\ frame = [c \in Calls |-> IdleFrame]
    /\ reply = [c \in Calls |-> NoReply]
    /\ uuid4 = 0
    /\ requests = 0
    /\ overlapped = [c \in Calls |-> FALSE]

\* Calls may overlap; the secret is configured.
Init == InitWith(2, Secret, state_body(None), List(<<>>), SmallFeed)

\* Calls are made one at a time; the secret is configured or not.
InitSeq ==
    \E secret \in {Secret, None} :
        InitWith(1, secret, state_body(None), List(<<>>), SmallFeed)

\* ---------------------------------------------------------------- helpers
\* The handler of call c ends with reply r.
Finish(c, fr, r) ==
    /\ pc' = [pc EXCEPT ![c] = "done"]
    /\ frame' = [frame EXCEPT ![c] = [fr EXCEPT !.attempt = 0]]
    /\ reply' = [reply EXCEPT ![c] = r]

\* The handler of call c issues a store request and is suspended at `at`.
Await(c, fr, at) ==
    /\ pc' = [pc EXCEPT ![c] = at]
    /\ frame' = [frame EXCEPT ![c] = [fr EXCEPT !.attempt = 0]]
    /\ reply' = [reply EXCEPT ![c] = NoReply]

\* The request of call c failed on the network and is tried again.
Retry(c) ==
    /\ pc' = pc
    /\ frame' = [frame EXCEPT ![c].attempt = @ + 1]
    /\ reply' = reply

\* post_job up to its first request (lines 61-62).
post_job(c, fr, target_id, command, args) ==
    /\ uuid4' = uuid4 + 1
    /\ Await(c, [fr EXCEPT !.job = new_job(uuid4 + 1, target_id, command, args)],
             "post_job_fetch")

\* json.dumps of the upload arguments (line 167)
upload_args(document) == "{filename: " \o document \o ", file_data_b64: ...}"

\* ---------------------------------------------------------------- handlers
\* cmd_target without the mapping of "clear" to None
cmd_target_no_clear(c, fr) ==
    /\ UNCHANGED <<uuid4>>
    /\ IF fr.update.args = <<>>
       THEN Finish(c, fr, [kind |-> "Usage"])
       ELSE Await(c, [fr EXCEPT !.target_id = Str(fr.update.args[1])],
                  "set_state")

\* lines 145-148, up to the request of set_state
cmd_target(c, fr) ==
    /\ UNCHANGED <<uuid4>>
    /\ IF fr.update.args = <<>>
       THEN Finish(c, fr, [kind |-> "Usage"])
       ELSE Await(c, [fr EXCEPT !.target_id =
                         IF lower(fr.update.args[1]) = chars("clear")
                         THEN None ELSE Str(fr.update.args[1])],
                  "set_state")

\* cmd_destroy aiming at the selected target instead of its argument
cmd_destroy_selected(c, fr) ==
    IF Len(fr.update.args) # 2 \/ upper(fr.update.args[2]) # chars("CONFIRM")
    THEN /\ Finish(c, fr, [kind |-> "ConfirmationRequired"])
         /\ UNCHANGED <<uuid4>>
    ELSE post_job(c, [fr EXCEPT !.target_id = get_state_value(state_blob).v],
                  get_state_value(state_blob).v, "destroy", "")

\* cmd_destroy counting its arguments without comparing the token
cmd_destroy_any_token(c, fr) ==
    IF Len(fr.update.args) # 2
    THEN /\ Finish(c, fr, [kind |-> "ConfirmationRequired"])
         /\ UNCHANGED <<uuid4>>
    ELSE post_job(c, [fr EXCEPT !.target_id = Str(fr.update.args[1])],
                  Str(fr.update.args[1]), "destroy", "")

\* lines 152-156, up to the first request of post_job
cmd_destroy(c, fr) ==
    IF Len(fr.update.args) # 2 \/ upper(fr.update.args[2]) # chars("CONFIRM")
    THEN /\ Finish(c, fr, [kind |-> "ConfirmationRequired"])
         /\ UNCHANGED <<uuid4>>
    ELSE post_job(c, [fr EXCEPT !.target_id = Str(fr.update.args[1])],
                  Str(fr.update.args[1]), "destroy", "")

\* line 160 and line 173: the handler starts with the request of get_state
cmd_upload(c, fr) ==
    /\ Await(c, fr, "get_state")
    /\ UNCHANGED <<uuid4>>

generic_command_handler(c, fr) ==
    /\ Await(c, fr, "get_state")
    /\ UNCHANGED <<uuid4>>

\* lines 70-85, up to the request for the heartbeat feed
cmd_list_agents(c, fr) ==
    /\ UNCHANGED <<uuid4>>
    /\ IF page_argument(fr.update.args).ValueError
       THEN Finish(c, fr, [kind |-> "InvalidPage"])
       ELSE Await(c, [fr EXCEPT !.page = page_argument(fr.update.args).v],
                  "list_fetch")

cmd_help(c, fr) ==
    /\ Finish(c, fr, [kind |-> "Help"])
    /\ UNCHANGED <<uuid4>>

\* ---------------------------------------------------------------- gateway
\* The application routes an update to the handler registered for its command
\* (lines 238-246).
process_update(c, fr) ==
    CASE fr.update.command = "help" -> cmd_help(c, fr)
      [] fr.update.command = "list" -> cmd_list_agents(c, fr)
      [] fr.update.command = "target" -> cmd_target(c, fr)
      [] fr.update.command = "destroy" -> cmd_destroy(c, fr)
      [] fr.update.command = "upload" -> cmd_upload(c, fr)
      [] fr.update.command \in agent_commands -> generic_command_handler(c, fr)

\* process_webhook (lines 249-252): the secret is compared, then the update
\* is routed to its handler, which runs up to its first store request.
process_webhook(c, hdr, upd) ==
    /\ c <= workers
    /\ ~InFlight(c)
    /\ requests < RequestBound
    /\ requests' = requests + 1
    /\ UNCHANGED <<SECRET_TOKEN, state_blob, jobs_blob, heartbeat_blob, workers>>
    /\ overlapped' = [d \in Calls |->
                         IF d = c THEN \E e \in Calls \ {c} : InFlight(e)
                         ELSE overlapped[d] \/ InFlight(d)]
    /\ IF hdr # SECRET_TOKEN
       THEN /\ Finish(c, [IdleFrame EXCEPT !.header = hdr],
                       [kind |-> "AuthRejected"])
            /\ UNCHANGED <<uuid4>>
       ELSE process_update(c, [IdleFrame EXCEPT
                                   !.header = hdr, !.update = upd,
                                   !.before = IF workers = 1
                                             THEN [state |-> state_blob,
                                                   jobs |-> jobs_blob]
                                             ELSE NoSnapshot])

\* ------------------------------------------------- after a store request
\* generic_command_handler without the test of the selected target
generic_after_get_state_unchecked(c, fr, sel) ==
    IF sel.raised
    THEN /\ Finish(c, fr, [kind |-> "Exception"])
         /\ UNCHANGED <<uuid4>>
    ELSE post_job(c, [fr EXCEPT !.selected_target = sel.v],
                  sel.v, fr.update.command, join(fr.update.args))

\* lines 174-176: generic_command_handler once get_state has returned
generic_after_get_state(c, fr, sel) ==
    IF sel.raised
    THEN /\ Finish(c, fr, [kind |-> "Exception"])
         /\ UNCHANGED <<uuid4>>
    ELSE IF ~Truthy(sel.v)
    THEN /\ Finish(c, [fr EXCEPT !.selected_target = sel.v],
                   [kind |-> "NoTargetSelected"])
         /\ UNCHANGED <<uuid4>>
    ELSE post_job(c, [fr EXCEPT !.selected_target = sel.v],
                  sel.v, fr.update.command, join(fr.update.args))

\* lines 161-168: cmd_upload once get_state has returned; the download of
\* the document from the chat service either succeeds or raises
upload_after_get_state(c, fr, sel) ==
    IF sel.raised
    THEN /\ Finish(c, fr, [kind |-> "Exception"])
         /\ UNCHANGED <<uuid4>>
    ELSE IF ~Truthy(sel.v)
    THEN /\ Finish(c, [fr EXCEPT !.selected_target = sel.v],
                   [kind |-> "NoTargetSelected"])
         /\ UNCHANGED <<uuid4>>
    ELSE IF fr.update.document = ""
    THEN /\ Finish(c, [fr EXCEPT !.selected_target = sel.v],
                   [kind |-> "HowToUse"])
         /\ UNCHANGED <<uuid4>>
    ELSE \/ /\ Finish(c, [fr EXCEPT !.selected_target = sel.v],
                      [kind |-> "UploadError"])
            /\ UNCHANGED <<uuid4>>
         \/ post_job(c, [fr EXCEPT !.selected_target = sel.v],
                     sel.v, "upload", upload_args(fr.update.document))

\* lines 86-141: cmd_list_agents once get_state has returned
list_after_get_state(c, fr, sel) ==
    /\ UNCHANGED <<uuid4>>
    /\ IF sel.raised
       THEN Finish(c, fr, [kind |-> "UnexpectedError"])
       ELSE Finish(c, [fr EXCEPT !.selected_target = sel.v],
                   list_reply(fr.agents, sel.v, fr.page))

\* get_state (lines 53-55): one attempt of its request, and, when the request
\* returns, the handler that called it up to its next request
get_state(c) ==
    /\ pc[c] = "get_state"
    /\ UNCHANGED <<SECRET_TOKEN, state_blob, jobs_blob, heartbeat_blob,
                   requests, overlapped, workers>>
    /\ \E res \in GetResults(state_blob) :
         LET r == make_async_request(frame[c].attempt, res)
             sel == get_state_value(r.value)
             fr == [frame[c] EXCEPT !.read = ending(res)]
         IN  IF ~r.returned
             THEN Retry(c) /\ UNCHANGED <<uuid4>>
             ELSE CASE frame[c].update.command = "upload" ->
                          upload_after_get_state(c, fr, sel)
                    [] frame[c].update.command = "list" ->
                          list_after_get_state(c, fr, sel)
                    [] OTHER ->
                          generic_after_get_state(c, fr, sel)

\* set_state (lines 57-58) and the reply of cmd_target (lines 149-150)
set_state(c) ==
    /\ pc[c] = "set_state"
    /\ UNCHANGED <<SECRET_TOKEN, jobs_blob, heartbeat_blob, requests,
                   overlapped, workers, uuid4>>
    /\ \E res \in PostResults(state_body(frame[c].target_id)) :
         LET r == make_async_request(frame[c].attempt, res)
         IN  /\ state_blob' = IF res.applied
                              THEN state_body(frame[c].target_id)
                              ELSE state_blob
             /\ IF ~r.returned
                THEN Retry(c)
                ELSE IF Truthy(r.value)
                THEN Finish(c, frame[c],
                            [kind |-> IF Truthy(frame[c].target_id)
                                      THEN "TargetSet" ELSE "TargetCleared"])
                ELSE Finish(c, frame[c], [kind |-> "SelectFailed"])

\* post_job reading the selected target again when its fetch returns
post_job_fetch_retargets(c) ==
    /\ pc[c] = "post_job_fetch"
    /\ UNCHANGED <<SECRET_TOKEN, state_blob, jobs_blob, heartbeat_blob,
                   requests, overlapped, workers, uuid4>>
    /\ \E res \in GetResults(jobs_blob) :
         LET r == make_async_request(frame[c].attempt, res)
             job == [frame[c].job EXCEPT
                        !.target_id = get_state_value(state_blob).v]
         IN  IF ~r.returned
             THEN Retry(c)
             ELSE Await(c, [frame[c] EXCEPT
                               !.fetched = r.value,
                               !.fetch = IF r.value.t # "None" THEN "returned"
                                         ELSE IF res.kind = "RequestError"
                                              THEN "exhausted" ELSE "status",
                               !.job = job,
                               !.current_jobs = append_job(r.value, job)],
                        "post_job_write")

\* post_job, lines 62-64: one attempt of the fetch, and the append
post_job_fetch(c) ==
    /\ pc[c] = "post_job_fetch"
    /\ UNCHANGED <<SECRET_TOKEN, state_blob, jobs_blob, heartbeat_blob,
                   requests, overlapped, workers, uuid4>>
    /\ \E res \in GetResults(jobs_blob) :
         LET r == make_async_request(frame[c].attempt, res)
         IN  IF ~r.returned
             THEN Retry(c)
             ELSE Await(c, [frame[c] EXCEPT
                               !.fetched = r.value,
                               !.fetch = IF r.value.t # "None" THEN "returned"
                                         ELSE IF res.kind = "RequestError"
                                              THEN "exhausted" ELSE "status",
                               !.current_jobs = append_job(r.value, frame[c].job)],
                        "post_job_write")

\* post_job whose write appends its Job to what the store holds at that moment
post_job_write_appending(c) ==
    /\ pc[c] = "post_job_write"
    /\ UNCHANGED <<SECRET_TOKEN, state_blob, heartbeat_blob, requests,
                   overlapped, workers, uuid4>>
    /\ \E res \in PostResults(List(frame[c].current_jobs)) :
         LET r == make_async_request(frame[c].attempt, res)
         IN  /\ jobs_blob' = IF res.applied
                             THEN List(append_job(jobs_blob, frame[c].job))
                             ELSE jobs_blob
             /\ IF ~r.returned
                THEN Retry(c)
                ELSE IF Truthy(r.value)
                THEN Finish(c, frame[c], [kind |-> "Dispatched"])
                ELSE Finish(c, frame[c], [kind |-> "DispatchFailed"])

\* post_job, line 65: one attempt of the write, and the reply of the handler
\* that called post_job (lines 156-157, 168-169, 176-177)
post_job_write(c) ==
    /\ pc[c] = "post_job_write"
    /\ UNCHANGED <<SECRET_TOKEN, state_blob, heartbeat_blob, requests,
                   overlapped, workers, uuid4>>
    /\ \E res \in PostResults(List(frame[c].current_jobs)) :
         LET r == make_async_request(frame[c].attempt, res)
         IN  /\ jobs_blob' = IF res.applied
                             THEN List(frame[c].current_jobs)
                             ELSE jobs_blob
             /\ IF ~r.returned
                THEN Retry(c)
                ELSE IF Truthy(r.value)
                THEN Finish(c, frame[c], [kind |-> "Dispatched"])
                ELSE Finish(c, frame[c], [kind |-> "DispatchFailed"])

\* cmd_list_agents, line 85: one attempt of the fetch of the feed, then the
\* request of get_state (line 86)
list_fetch(c) ==
    /\ pc[c] = "list_fetch"
    /\ UNCHANGED <<SECRET_TOKEN, state_blob, jobs_blob, heartbeat_blob,
                   requests, overlapped, workers, uuid4>>
    /\ \E res \in GetResults(heartbeat_blob) :
         LET r == make_async_request(frame[c].attempt, res)
         IN  IF ~r.returned
             THEN Retry(c)
             ELSE Await(c, [frame[c] EXCEPT !.agents = r.value], "get_state")

\* --------------------------------------------------------- specification
webhook_target(c) ==
    \E hdr \in Headers, upd \in TargetUpdates :
        process_webhook(c, hdr, upd)
webhook_destroy(c) ==
    \E hdr \in Headers, upd \in DestroyUpdates :
        process_webhook(c, hdr, upd)
webhook_upload(c) ==
    \E hdr \in Headers, upd \in UploadUpdates :
        process_webhook(c, hdr, upd)
webhook_generic(c) ==
    \E hdr \in Headers, upd \in GenericUpdates :
        process_webhook(c, hdr, upd)
webhook_list(c) ==
    \E hdr \in Headers, upd \in ListUpdates :
        process_webhook(c, hdr, upd)
webhook_help(c) ==
    \E hdr \in Headers, upd \in HelpUpdates :
        process_webhook(c, hdr, upd)

Next ==
    \E c \in Calls :
        \/ webhook_target(c)
        \/ webhook_destroy(c)
        \/ webhook_upload(c)
        \/ webhook_generic(c)
        \/ webhook_list(c)
        \/ webhook_help(c)
        \/ get_state(c)
        \/ set_state(c)
        \/ post_job_fetch(c)
        \/ post_job_write(c)
        \/ list_fetch(c)

\* The listing alone, over feeds of up to MaxAgents agents: agent i was last
\* seen (i * stride) % 97 seconds ago, so a stride of 0 makes all timestamps
\* equal, 1 lists the agents newest first, and 7 mixes the order and leaves
\* some agents outside the online window.
Feed(n, stride) ==
    List([i \in 1..n |->
            [id |-> "agent-" \o ToString(i),
             timestamp |-> current_time_unix - ((i * stride) % 97)]])

InitList ==
    \E n \in 0..MaxAgents, stride \in {0, 1, 7} :
        InitWith(1, Secret, state_body(Str("agent-2")), List(<<>>),
                 Feed(n, stride))

PageUpdates ==
    { Update("list", a, "") :
        a \in {<<>>, <<"0">>, <<"2">>, <<"3">>, <<"4">>, <<"x">>} }

webhook_pages(c) ==
    \E upd \in PageUpdates : process_webhook(c, Secret, upd)

NextList ==
    \E c \in Calls :
        \/ webhook_pages(c)
        \/ list_fetch(c)
        \/ get_state(c)

SpecList == InitList /\ [][NextList]_vars

\* Inbound calls handled concurrently by the hosting transport.
Spec == Init /\ [][Next]_vars

\* The same calls made one at a time.
SpecSeq == InitSeq /\ [][Next]_vars

\* A request that has been issued runs on: asyncio.run drives the handler until
\* it returns, every attempt ends within its timeout (line 44) and the sleep
\* between attempts is finite (line 48).
resume(c) ==
    \/ get_state(c)
    \/ set_state(c)
    \/ post_job_fetch(c)
    \/ post_job_write(c)
    \/ list_fetch(c)

InitLive == InitWith(1, Secret, state_body(None), List(<<>>), SmallFeed)

SpecLive == InitLive /\ [][Next]_vars /\ \A c \in Calls : WF_vars(resume(c))

\* Calls that may overlap, made while an agent is selected: accepted calls
\* that select, remove an agent, or dispatch to the selected target.
InitSelected ==
    InitWith(2, Secret, state_body(Str("a1")), List(<<>>), SmallFeed)

SelectedUpdates ==
    { Update("target", <<"all">>, ""), Update("target", <<"clear">>, ""),
      Update("destroy", <<"a1", "CONFIRM">>, ""),
      Update("info", <<"x", "a1">>, ""), Update("upload", <<>>, "f.txt") }

webhook_selected(c) ==
    \E upd \in SelectedUpdates : process_webhook(c, Secret, upd)

NextSelected ==
    \E c \in Calls :
        \/ webhook_selected(c)
        \/ get_state(c)
        \/ set_state(c)
        \/ post_job_fetch(c)
        \/ post_job_write(c)

SpecSelected == InitSelected /\ [][NextSelected]_vars

\* The store is a remote service the relay does not own: what it holds when
\* the relay starts may be anything. One of the two resources holds something
\* other than what the relay writes there: no text, text that is not JSON, or
\* JSON of another shape (a number, a non-empty array, an object with other
\* keys); the other holds a selection, or an empty queue.
Foreign == Dict([other |-> Num(1)])
StatePayloads == {EmptyText, NotJson, Num(7), List(<<Num(1)>>), Foreign}
QueuePayloads == {EmptyText, NotJson, Num(7), Foreign}

InitBlob ==
    \/ \E state \in StatePayloads :
          InitWith(1, Secret, state, List(<<>>), SmallFeed)
    \/ \E jobs \in QueuePayloads :
          InitWith(1, Secret, state_body(Str("a1")), jobs, SmallFeed)

\* Calls made one at a time against a store that holds foreign content.
SpecBlob == InitBlob /\ [][Next]_vars

\* ================================================================ claims
Range(s) == { s[i] : i \in DOMAIN s }
IsPrefix(s, t) == Len(s) <= Len(t) /\ SubSeq(t, 1, Len(s)) = s
Last(s) == s[Len(s)]

\* two tokens are equal up to the case of their letters
CaseInsensitiveEqual(a, b) ==
    /\ Len(chars(a)) = Len(chars(b))
    /\ \A i \in DOMAIN chars(a) : tolower(chars(a)[i]) = tolower(chars(b)[i])

\* the remove-agent command carries its confirmation token
Confirmed(args) == Len(args) >= 2 /\ CaseInsensitiveEqual(args[2], "CONFIRM")

\* the Selection and the Queue the store holds
Selection ==
    IF state_blob.t = "dict" /\ "selected_target" \in DOMAIN state_blob.v
    THEN state_blob.v.selected_target ELSE None
Queue == IF jobs_blob.t = "list" THEN jobs_blob.v ELSE <<>>

\* call c took the step
Moved(c) == pc'[c] # pc[c] \/ frame'[c] # frame[c]
\* call c is in post_job or has been
Enqueues(c) == frame[c].job # NoJob
Acknowledged(c) == pc[c] = "done" /\ reply[c].kind = "Dispatched"

\* C1: a call whose secret header is missing, or differs from the configured
\* secret, is answered AuthRejected and no handler runs for it, whether or not
\* a secret is configured.
C1_RejectsUnauthenticated ==
    \A c \in Calls :
        (pc[c] # "idle"
         /\ (frame[c].header = None \/ frame[c].header # SECRET_TOKEN))
        => (pc[c] = "done" /\ reply[c].kind = "AuthRejected")

\* C2 as stated: while Selection is none, no well-formed command that
\* dispatches, other than the select command, creates a Job, and each ends
\* NoTargetSelected.
Dispatching == agent_commands \cup {"upload", "destroy"}
WellFormed(update) ==
    /\ update.command \in Dispatching
    /\ update.command = "destroy" => (Len(update.args) = 2 /\ Confirmed(update.args))
C2_Original ==
    \A c \in Calls :
        (pc[c] # "idle" /\ WellFormed(frame[c].update)
         /\ Selection = None)
        => (~Enqueues(c)
            /\ (pc[c] = "done" => reply[c].kind = "NoTargetSelected"))

\* C2, amended: when a selection-dependent command (a generic agent command or
\* upload) gets its read of the Selection back while the Selection is none,
\* it ends there with NoTargetSelected, creates no Job and leaves the Queue
\* as it is.
SelectionDependent == agent_commands \cup {"upload"}
C2_NoTargetSelected ==
    [][\A c \in Calls :
         (pc[c] = "get_state" /\ pc'[c] # "get_state"
          /\ frame[c].update.command \in SelectionDependent
          /\ Selection = None)
         => (pc'[c] = "done"
             /\ reply'[c].kind = "NoTargetSelected"
             /\ ~Enqueues(c)'
             /\ jobs_blob' = jobs_blob
             /\ uuid4' = uuid4)]_vars

C2_Witness ==
    \E c \in Calls :
        /\ pc[c] = "done"
        /\ frame[c].update.command \in agent_commands
        /\ reply[c].kind = "NoTargetSelected"
        /\ Selection = None

\* C3: the remove-agent command creates a Job only for a confirmation token
\* equal to CONFIRM up to case; with the token missing or different it ends
\* at once with ConfirmationRequired, creates no Job and leaves the Queue as it
\* is, whatever calls came before.
C3_ConfirmationRequired ==
    [][\A c \in Calls :
         (Moved(c) /\ frame'[c].update.command = "destroy")
         => /\ Enqueues(c)' => Confirmed(frame'[c].update.args)
            /\ ~Confirmed(frame'[c].update.args)
               => (pc'[c] = "done"
                   /\ reply'[c].kind = "ConfirmationRequired"
                   /\ jobs_blob' = jobs_blob
                   /\ uuid4' = uuid4)]_vars

C3_Witness ==
    \E c \in Calls :
        /\ requests = MaxRequests
        /\ pc[c] = "done"
        /\ frame[c].update.command = "destroy"
        /\ frame[c].update.args = <<"a1", "CONFIRN">>
        /\ reply[c].kind = "ConfirmationRequired"
        /\ Queue # <<>>

\* C4: no step of a select command creates a Job or changes the Queue, and
\* when the command is acknowledged the Selection is its argument, or none
\* for "clear" in any letter case.
Selected(arg) == IF CaseInsensitiveEqual(arg, "clear") THEN None ELSE Str(arg)
C4_SelectOnlyWritesSelection ==
    [][\A c \in Calls :
         (Moved(c) /\ frame'[c].update.command = "target")
         => /\ jobs_blob' = jobs_blob
            /\ uuid4' = uuid4
            /\ ~Enqueues(c)'
            /\ (pc'[c] = "done" /\ reply'[c].kind \in {"TargetSet", "TargetCleared"})
               => Selection' = Selected(frame'[c].update.args[1])]_vars

C4_Witness ==
    \E c \in Calls :
        /\ pc[c] = "done"
        /\ frame[c].update.args = <<"Clear">>
        /\ reply[c].kind = "TargetCleared"
        /\ Selection = None
        /\ Queue # <<>>

\* C5: a generic dispatch that is acknowledged, made alone while the Selection
\* is X, leaves the Queue one Job longer, and its last Job has target X, the
\* command and the argument string of the call.
C5_DispatchAppendsOne ==
    [][\A c \in Calls :
         (pc[c] = "post_job_write" /\ pc'[c] = "done"
          /\ reply'[c].kind = "Dispatched"
          /\ frame[c].update.command \in agent_commands
          /\ frame[c].attempt = 0
          /\ ~overlapped[c]
          /\ Selection = frame[c].selected_target)
         => (Len(Queue') = Len(Queue) + 1
             /\ Last(Queue').target_id = Selection
             /\ Last(Queue').command = frame[c].update.command
             /\ Last(Queue').args = join(frame[c].update.args))]_vars

\* C6: two acknowledged enqueue calls that did not overlap any call have
\* different job_ids, and both Jobs are in the Queue.
C6_BothJobsPresent ==
    \A c, d \in Calls :
        (c # d /\ Acknowledged(c) /\ Acknowledged(d)
         /\ ~overlapped[c] /\ ~overlapped[d])
        => (frame[c].job.job_id # frame[d].job.job_id
            /\ frame[c].job \in Range(Queue)
            /\ frame[d].job \in Range(Queue))

\* C7: an enqueue whose fetch of the Queue failed on every attempt does not
\* report success: it ends DispatchFailed.
C7_FetchFailureFailsDispatch ==
    \A c \in Calls :
        (pc[c] = "done" /\ Enqueues(c) /\ frame[c].fetch = "exhausted")
        => reply[c].kind = "DispatchFailed"

\* C8: a write of the Queue by a call that overlapped no other call keeps the
\* old Queue as a prefix and adds exactly one Job.
C8_AppendOnly ==
    [][\A c \in Calls :
         (pc[c] = "post_job_write" /\ Moved(c) /\ ~overlapped[c]
          /\ jobs_blob' # jobs_blob)
         => (IsPrefix(Queue, Queue') /\ Len(Queue') = Len(Queue) + 1)]_vars

\* C9: two acknowledged enqueue calls that fetched the same Queue interleaved
\* their fetch and write, and of their two Jobs the Queue keeps only one,
\* appended to what both fetched: the Job of the call that wrote last.
C9_LastWriterWins ==
    \A c, d \in Calls :
        (c # d /\ Acknowledged(c) /\ Acknowledged(d)
         /\ frame[c].fetch = "returned" /\ frame[d].fetch = "returned"
         /\ frame[c].fetched = frame[d].fetched)
        => (Len(Queue) = Len(frame[c].fetched.v) + 1
            /\ IsPrefix(frame[c].fetched.v, Queue)
            /\ Last(Queue) \in {frame[c].job, frame[d].job}
            /\ ~(frame[c].job \in Range(Queue) /\ frame[d].job \in Range(Queue)))

C9_Witness ==
    \E c, d \in Calls :
        /\ c # d /\ Acknowledged(c) /\ Acknowledged(d)
        /\ frame[c].fetch = "returned" /\ frame[d].fetch = "returned"
        /\ overlapped[c] /\ overlapped[d]
        /\ Queue = <<frame[d].job>>

\* C10: for N >= 1 live agents and pages of 15, the pages are 1..ceil(N/15):
\* a request beyond them is answered PageOutOfRange, a request within them
\* with its page; over all the pages, one after the other, every live agent
\* is shown exactly once, and last-seen never increases along a page or from
\* a page to the next.
FeedEntries == heartbeat_blob.v
LiveIndices ==
    { i \in DOMAIN FeedEntries : current_time_unix - FeedEntries[i].timestamp <= 90 }
Ceil(n, p) == CHOOSE k \in 0..n : k * p >= n /\ (k - 1) * p < n
RECURSIVE Concat(_, _)
Concat(pages, upto) ==
    IF upto = 0 THEN <<>> ELSE Concat(pages, upto - 1) \o pages[upto]

C10_Pagination ==
    \A c \in Calls :
        (pc[c] = "done" /\ frame[c].update.command = "list"
         /\ reply[c].kind \in {"Page", "PageOutOfRange"})
        => LET N == Cardinality(LiveIndices)
               P == Ceil(N, 15)
               shown == [q \in 1..(P + 1) |->
                           list_reply(heartbeat_blob, frame[c].selected_target, q)]
               pages == [q \in 1..P |-> shown[q].agents]
               all == Concat(pages, P)
           IN  /\ N >= 1
               /\ (reply[c].kind = "PageOutOfRange") = (frame[c].page > P)
               /\ reply[c].kind = "Page"
                  => (reply[c].total_pages = P
                      /\ reply[c].agents = pages[frame[c].page])
               /\ \A q \in 1..P : shown[q].kind = "Page" /\ pages[q] # <<>>
               /\ shown[P + 1].kind = "PageOutOfRange"
               /\ Len(all) = N
               /\ \A i \in LiveIndices :
                    \E j \in DOMAIN all :
                        /\ all[j] = FeedEntries[i]
                        /\ \A k \in DOMAIN all : all[k] = FeedEntries[i] => k = j
               /\ \A j, k \in DOMAIN all :
                    (j < k) => all[j].timestamp >= all[k].timestamp

C10_Witness ==
    \E c \in Calls :
        /\ pc[c] = "done"
        /\ reply[c].kind = "Page"
        /\ reply[c].page = 3
        /\ reply[c].total_pages = 3
        /\ Len(reply[c].agents) = 1
        /\ Len(heartbeat_blob.v) > 31

\* C11: a payload of the store that is not JSON, or not of the expected shape,
\* is replaced by the default. A read of the Selection that gets such a
\* payload back yields none: a selection-dependent command ends
\* NoTargetSelected and no handler fails on it. A fetch of the Queue that gets
\* such a payload back yields the empty queue: the list to write is the new
\* Job alone.
MalformedSelection ==
    ~(state_blob.t = "dict" /\ "selected_target" \in DOMAIN state_blob.v)
MalformedQueue == jobs_blob.t # "list"
Failed == {"Exception", "UnexpectedError"}
C11_MalformedIsDefault ==
    [][\A c \in Calls :
         /\ (pc[c] = "get_state" /\ pc'[c] # "get_state"
             /\ MalformedSelection
             /\ frame'[c].read \in {"returned", "garbage", "empty"})
            => (/\ reply'[c].kind \notin Failed
                /\ frame'[c].selected_target = None
                /\ frame[c].update.command \in SelectionDependent
                     => reply'[c].kind = "NoTargetSelected")
         /\ (pc[c] = "post_job_fetch" /\ pc'[c] = "post_job_write"
             /\ MalformedQueue
             /\ frame'[c].fetch = "returned")
            => frame'[c].current_jobs = <<frame[c].job>>
      ]_vars

\* C12: every call of the store client ends. Its attempts are numbered below
\* `retries`; whatever the pending attempt ends in, another attempt follows
\* only after a network error and only while attempts remain, and a network
\* error ends the call, with no value, exactly on the last attempt; a step
\* that repeats a request is the next attempt of the same request; and a call
\* that is suspended at a request is eventually answered.
Pending(c) ==
    CASE pc[c] = "get_state" -> GetResults(state_blob)
      [] pc[c] = "list_fetch" -> GetResults(heartbeat_blob)
      [] pc[c] = "post_job_fetch" -> GetResults(jobs_blob)
      [] pc[c] = "set_state" -> PostResults(state_body(frame[c].target_id))
      [] pc[c] = "post_job_write" -> PostResults(List(frame[c].current_jobs))
      [] OTHER -> {}
AttemptsBounded ==
    \A c \in Calls :
        /\ frame[c].attempt \in 0 .. retries - 1
        /\ \A res \in Pending(c) :
             LET r == make_async_request(frame[c].attempt, res)
             IN  /\ ~r.returned
                    => (res.kind = "RequestError"
                        /\ frame[c].attempt + 1 < retries)
                 /\ (r.returned /\ res.kind = "RequestError")
                    => (frame[c].attempt = retries - 1 /\ r.value = None)
NextAttempt ==
    \A c \in Calls :
        (InFlight(c) /\ pc'[c] = pc[c] /\ frame'[c] # frame[c])
        => (/\ frame'[c] = [frame[c] EXCEPT !.attempt = @ + 1]
            /\ frame'[c].attempt < retries)
C12_StoreCallsTerminate ==
    /\ []AttemptsBounded
    /\ [][NextAttempt]_vars
    /\ \A c \in Calls : InFlight(c) ~> pc[c] = "done"

\* a dispatch whose fetch failed on the network on every attempt, and whose
\* write failed as well, has been answered
C12_Witness ==
    \E c \in Calls :
        /\ pc[c] = "done"
        /\ frame[c].fetch = "exhausted"
        /\ reply[c].kind = "DispatchFailed"

\* C13: with calls made one at a time, a call that has ended in an error
\* outcome has left the Selection and the Queue as they were when it was
\* accepted, and a call that has been acknowledged has its write in the
\* store: its Job is the last of the Queue, or its target is the Selection.
ErrorOutcomes ==
    {"NoTargetSelected", "ConfirmationRequired", "DispatchFailed",
     "SelectFailed", "PageOutOfRange"}
C13_FailureLeavesStore ==
    \A c \in Calls :
        pc[c] = "done" =>
            /\ reply[c].kind \in ErrorOutcomes
               => (/\ state_blob = frame[c].before.state
                   /\ jobs_blob = frame[c].before.jobs)
            /\ reply[c].kind = "Dispatched"
               => (Queue # <<>> /\ Last(Queue) = frame[c].job)
            /\ reply[c].kind \in {"TargetSet", "TargetCleared"}
               => Selection = frame[c].target_id

\* C14: the Selection is none at the start; it is none or the argument of a
\* select command ever after; the only step that changes the Selection
\* resource is the write of a select command, and it stores the argument of
\* that command (none for "clear" in any case); and a selection-dependent
\* command whose read of the Selection returns gets the value the resource
\* holds, that is the value of the latest write of a select.
SelectValue(args) ==
    IF lower(args[1]) = chars("clear") THEN None ELSE Str(args[1])
SelectArguments ==
    { SelectValue(u.args) : u \in { v \in TargetUpdates : v.args # <<>> } }
WrittenBySelect ==
    state_blob' # state_blob =>
        \E c \in Calls :
            /\ pc[c] = "set_state"
            /\ frame[c].update.command = "target"
            /\ Moved(c)
            /\ state_blob' = state_body(SelectValue(frame[c].update.args))
ReadsLatest ==
    \A c \in Calls :
        (pc[c] = "get_state" /\ pc'[c] # "get_state"
         /\ frame[c].update.command \in SelectionDependent
         /\ frame'[c].read = "returned")
        => frame'[c].selected_target = Selection
C14_SelectionWrittenBySelect ==
    /\ Selection = None
    /\ [](Selection \in {None} \cup SelectArguments)
    /\ [][WrittenBySelect /\ ReadsLatest]_vars

\* the third call of a behaviour, a dispatch, has read the value that an
\* earlier select wrote and that the store held when the dispatch was accepted
C14_Witness ==
    \E c \in Calls :
        /\ pc[c] = "done"
        /\ frame[c].update.command \in agent_commands
        /\ frame[c].read = "returned"
        /\ frame[c].before.state = state_body(Str("all"))
        /\ frame[c].selected_target = Str("all")
        /\ requests = 3

\* C15: when the read of the Selection by a selection-dependent command ends
\* without a value (the attempts exhausted on network errors, an error
\* status) or with an empty body, the command ends there with
\* NoTargetSelected, whatever the Selection resource holds: it creates no Job
\* and neither fetches nor writes the Queue.
ReadFailed == {"exhausted", "status", "empty"}
C15_ReadFailureIsNoTarget ==
    [][\A c \in Calls :
         (pc[c] = "get_state" /\ pc'[c] # "get_state"
          /\ frame[c].update.command \in SelectionDependent
          /\ frame'[c].read \in ReadFailed)
         => (/\ pc'[c] = "done"
             /\ reply'[c].kind = "NoTargetSelected"
             /\ ~Enqueues(c)'
             /\ jobs_blob' = jobs_blob)
      ]_vars

\* a dispatch made while an agent is selected has ended NoTargetSelected
\* because its read of the Selection failed on every attempt
C15_Witness ==
    \E c \in Calls :
        /\ pc[c] = "done"
        /\ frame[c].update.command \in agent_commands
        /\ frame[c].read = "exhausted"
        /\ Selection = Str("a1")
        /\ reply[c].kind = "NoTargetSelected"

\* the same with a Selection resource that answers with an empty body
C15_EmptyBody ==
    \E c \in Calls :
        /\ pc[c] = "done"
        /\ frame[c].update.command = "upload"
        /\ frame[c].read = "empty"
        /\ reply[c].kind = "NoTargetSelected"

\* C16: with calls that overlap, a selection-dependent command that creates
\* a Job gives it the Selection its read returned, which is not none; the Job
\* keeps that target until it is written, whatever a select writes in
\* between; and no Job of such a command in the Queue has the target none.
TargetIsRead ==
    \A c \in Calls :
        (frame[c].update.command \in SelectionDependent /\ Enqueues(c))
        => (/\ frame[c].read = "returned"
            /\ frame[c].selected_target # None
            /\ frame[c].job.target_id = frame[c].selected_target
            /\ pc[c] = "post_job_write"
               => Last(frame[c].current_jobs) = frame[c].job)
QueueTargeted ==
    \A i \in DOMAIN Queue :
        Queue[i].command \in SelectionDependent => Queue[i].target_id # None
TargetAtRead ==
    \A c \in Calls :
        (pc[c] = "get_state" /\ pc'[c] = "post_job_fetch")
        => (frame'[c].job.target_id = Selection /\ Selection # None)
C16_TargetIsSelectionRead ==
    /\ [](TargetIsRead /\ QueueTargeted)
    /\ [][TargetAtRead]_vars

\* a dispatch read the Selection a1, a select that overlapped it replaced the
\* Selection, and the Job the dispatch then wrote is for a1
C16_Witness ==
    \E c \in Calls :
        /\ Acknowledged(c)
        /\ overlapped[c]
        /\ frame[c].update.command \in SelectionDependent
        /\ frame[c].job.target_id = Str("a1")
        /\ Selection # Str("a1")
        /\ Queue # <<>>
        /\ Last(Queue) = frame[c].job

\* C17: a remove-agent command never reads the Selection and no step of it
\* changes the Selection resource; with its confirmation token it creates a
\* Job for the identifier it was given, with the command "destroy" and empty
\* args, whatever the Selection is; and a write of it that changes the Queue
\* leaves that Job in the Queue exactly once, as its last element.
Removes(c) == frame[c].update.command = "destroy"
RemoveJob(c) ==
    /\ frame[c].job.target_id = Str(frame[c].update.args[1])
    /\ frame[c].job.command = "destroy"
    /\ frame[c].job.args = ""
RemoveIgnoresSelection ==
    \A c \in Calls :
        Removes(c) =>
            /\ pc[c] \notin {"get_state", "set_state"}
            /\ frame[c].read = "none"
            /\ (Len(frame[c].update.args) = 2 /\ Confirmed(frame[c].update.args))
               => (Enqueues(c) /\ RemoveJob(c))
RemoveWritesOne ==
    \A c \in Calls :
        (Removes(c) /\ Moved(c)) =>
            /\ state_blob' = state_blob
            /\ jobs_blob' # jobs_blob =>
                 /\ Last(Queue') = frame[c].job
                 /\ Cardinality({ i \in DOMAIN Queue' :
                                     Queue'[i].job_id = frame[c].job.job_id }) = 1
C17_RemoveIgnoresSelection ==
    /\ []RemoveIgnoresSelection
    /\ [][RemoveWritesOne]_vars

\* a confirmed remove-agent command for a1 has been acknowledged while the
\* Selection is another target, and its Job for a1 is in the Queue
C17_Witness ==
    \E c \in Calls :
        /\ Removes(c)
        /\ Acknowledged(c)
        /\ Selection = Str("all")
        /\ Queue # <<>>
        /\ Last(Queue) = frame[c].job
        /\ frame[c].job.target_id = Str("a1")

\* the same while the Selection is none
C17_NoneSelected ==
    \E c \in Calls :
        /\ Removes(c)
        /\ Acknowledged(c)
        /\ Selection = None
        /\ Queue # <<>>
        /\ Last(Queue) = frame[c].job

====
